---- MODULE Spec2Model ----
\* The `tv` subcommand of sonarr-plex-cleaner (src/src/commands/tv.rs) and the
\* Sonarr client calls it makes (src/src/services/sonarr.rs), as a state
\* machine: set-up, the decision pass over the inventory, and the
\* orchestration loop that reports, unmonitors and deletes.
EXTENDS Integers, Sequences, FiniteSets, TLC

\* ---------------------------------------------------------------- bounds

\* The clock takes the values 0..MaxNow; a run starts at MaxNow - 1.
MaxNow == 3

\* The attempt counter of the retry loop saturates at MaxAttempts (the loop
\* itself never ends on its own).
MaxAttempts == 3

\* ------------------------------------------------------------ input sets

Times == 0..MaxNow

\* Option<DateTime<Utc>>: {} is None, {t} is Some(t).
OptTimes == {{}} \cup {{t} : t \in Times}

RetainDurations == {0, 1}

SizesOnDisk == {0, 5}

\* The tag the configuration may name, and the ID Sonarr interned it under.
KeepLabel == "keep"

KeepTag == [label |-> KeepLabel, id |-> 7]

OtherTag == [label |-> "hd", id |-> 8]

\* SeasonStats (only the fields TVCommand::run reads).
SeasonStats(next, prev, size) ==
    [next_airing |-> next, previous_airing |-> prev, size_on_disk |-> size]

Season(n, stats) ==
    [season_number |-> n, monitored |-> TRUE, statistics |-> stats]

Series(id, title, tags, seasons) ==
    [id |-> id, title |-> title, tags |-> tags, seasons |-> seasons]

EpisodeFile(id, series_id, season_number) ==
    [id |-> id, series_id |-> series_id, season_number |-> season_number]

\* A season as the watch-tracker lists it.
PlexSeason(show_name, title, episodes, viewed_episodes) ==
    [show_name |-> show_name, title |-> title,
     episodes |-> episodes, viewed_episodes |-> viewed_episodes]

\* ------------------------------------------------------- pure functions

\* format!("Season {}", season.season_number)
SeasonLabel(n) == "Season " \o ToString(n)

\* The watched test with an empty season counted as unwatched.
fully_watched_nonempty(s) == s.viewed_episodes = s.episodes /\ s.episodes > 0

\* plex::Season::fully_watched
fully_watched(s) == s.viewed_episodes = s.episodes

\* A season entry of the Plex server: the kind of the library it is in, its
\* own kind (MediaKind, AllEpisodes when the type attribute is missing) and
\* its fields.
PlexEntry(library, kind, season) ==
    [library |-> library, kind |-> kind, season |-> season]

\* An entry of a TV library that is a real season.
TV(season) == PlexEntry("show", "TVSeason", season)

\* PlexClient::all_tv_seasons: the seasons of the shows of the TV
\* libraries, without the "All Episodes" pseudo-seasons.
all_tv_seasons(entries) ==
    {e.season : e \in {x \in entries : x.library = "show" /\ x.kind # "AllEpisodes"}}

\* plex.all_tv_seasons() ... .filter(|s| s.fully_watched())
\*                           .map(|s| (s.show_name, s.title)).collect()
WatchedSet(seasons) ==
    {<<s.show_name, s.title>> : s \in {x \in seasons : fully_watched(x)}}

\* Tags::get: the tag with the given label, as an Option.
TagsGet(tags, name) == {t \in tags : t.label = name}

\* The tag check left out.
ExemptNever(series, tag) == FALSE

\* if let Some((name, id)) = &retain_tag { if series.tags.contains(&id) ... }
Exempt(series, tag) == \E t \in tag : t.id \in series.tags

\* The still-airing check left out.
StillAiringNever(season) == FALSE

\* season.statistics.next_airing.is_some()
StillAiring(season) == season.statistics.next_airing # {}

\* The age comparison with <= for <.
OldEnoughInclusive(season, retain, t) ==
    \E air \in season.statistics.previous_airing : air + retain <= t

\* previous_airing.map(|air| air + retain_duration < Utc::now()).unwrap_or(false)
OldEnough(season, retain, t) ==
    \E air \in season.statistics.previous_airing : air + retain < t

\* The membership test the wrong way round.
NotWatchedInverted(watched, series, season) ==
    <<series.title, SeasonLabel(season.season_number)>> \in watched

\* watched_seasons.get(&(title, format!(..))).is_none()  (named is_watched in
\* the source; it is true when the season is NOT in the watched set)
NotWatched(watched, series, season) ==
    <<series.title, SeasonLabel(season.season_number)>> \notin watched

\* season.statistics.size_on_disk == 0
NothingOnDisk(season) == season.statistics.size_on_disk = 0

\* An error result swallowed instead of unwrapped.
ExpectIgnored(ok, next) == next

\* Result::expect at the call sites of TVCommand::run: the position the run
\* goes to, next when the call returned Ok, a panic when it returned Err.
Expect(ok, next) == IF ok THEN next ELSE "panic"

\* An entry made for every series, eligible seasons or not.
CollectEmptyToo(map, series, seasons) ==
    {e \in map : e.series # series} \cup {[series |-> series, seasons |-> seasons]}

\* tv.rs 154-160: the outer filter_map and collect: no entry for a series
\* without eligible seasons, one entry per (equal) series otherwise.
Collect(map, series, seasons) ==
    IF seasons = <<>> THEN map
    ELSE {e \in map : e.series # series}
           \cup {[series |-> series, seasons |-> seasons]}

\* The configuration file as written: retention.retain_tag and
\* retention.retain_duration may be left out; tv stands for the rest.
FileConfig(tv, tag, duration) ==
    [tv |-> tv, retain_tag |-> tag, retain_duration |-> duration]

\* SonarrPlexCleanerCliConfig as deserialized: #[serde(default)] makes a
\* missing retain_duration Duration::default(), which is zero.
ParseConfig(file) ==
    [tv |-> file.tv,
     retention |->
        [retain_tag |-> file.retain_tag,
         retain_duration |->
            IF file.retain_duration = {} THEN 0
            ELSE CHOOSE d \in file.retain_duration : TRUE]]

\* The override left out.
OverrideIgnored(retain_for, cfg) == cfg

\* TVCommand::override_config
override_config(retain_for, cfg) ==
    IF retain_for = {} THEN cfg
    ELSE [cfg EXCEPT !.retention.retain_duration =
             CHOOSE d \in retain_for : TRUE]

\* (Utc::now() - air + retain_duration).to_std(): an error (and then a panic
\* in expect) exactly when the duration is negative.
AgeLogPanics(season, retain, t) ==
    \E air \in season.statistics.previous_airing : t - air + retain < 0

\* The verdict of the per-season closure, in the order of its early returns.
Verdict(watched, series, season, retain, t) ==
    IF NotWatched(watched, series, season) THEN "unwatched"
    ELSE IF StillAiring(season) THEN "airing"
    ELSE IF ~OldEnough(season, retain, t) THEN "young"
    ELSE IF NothingOnDisk(season) THEN "empty"
    ELSE "eligible"

\* The age test made before the still-airing test.
SkipLogAgeFirst(watched, series, season, retain, t) ==
    IF NotWatched(watched, series, season) THEN {"unwatched"}
    ELSE IF ~OldEnough(season, retain, t)
         THEN IF season.statistics.previous_airing # {} THEN {"age"} ELSE {}
    ELSE IF StillAiring(season)
         THEN IF season.statistics.previous_airing # {} THEN {"still airing"} ELSE {}
    ELSE {}

\* The "Skipping ..." line the per-season closure writes before it returns
\* None, as an Option: debug! at tv.rs 112-115, info! at tv.rs 122-125 and
\* at tv.rs 131-143.
SkipLog(watched, series, season, retain, t) ==
    IF NotWatched(watched, series, season) THEN {"unwatched"}
    ELSE IF StillAiring(season)
         THEN IF season.statistics.previous_airing # {} THEN {"still airing"} ELSE {}
    ELSE IF ~OldEnough(season, retain, t)
         THEN IF season.statistics.previous_airing # {} THEN {"age"} ELSE {}
    ELSE {}

\* ---------------------------------------------- delete_episode_file's HTTP

\* reqwest::StatusCode::NOT_FOUND
NOT_FOUND == 404

\* Status codes a DELETE may be answered with.
Statuses == {200, 302, 403, NOT_FOUND, 500}

\* The result of req.send(): a response with a status, or a connection error.
ConnectionError == [sent |-> FALSE, status |-> 0]

Responses == {ConnectionError} \cup {[sent |-> TRUE, status |-> st] : st \in Statuses}

\* StatusCode::is_success, is_client_error, is_server_error
is_success(st) == st >= 200 /\ st < 300

is_client_error(st) == st >= 400 /\ st < 500

is_server_error(st) == st >= 500 /\ st < 600

\* Response::error_for_status is an Err
error_for_status(st) == is_client_error(st) \/ is_server_error(st)

\* sonarr.rs 319-345: what the first request's result leads to: "ok" and
\* "err" are returned to the caller, "retry" enters the retry loop.
FirstOutcome(r) ==
    IF ~r.sent THEN "err"
    ELSE IF is_success(r.status) THEN "ok"
    ELSE IF is_server_error(r.status) THEN "retry"
    ELSE IF error_for_status(r.status) THEN "err"
    ELSE "ok"

\* A retry loop that hands the closure's Err to the caller.
RetryOutcomeGivesUp(r) ==
    IF ~r.sent THEN "err"
    ELSE IF is_success(r.status) \/ r.status = NOT_FOUND THEN "ok"
    ELSE IF error_for_status(r.status) THEN "err"
    ELSE "ok"

\* sonarr.rs 323-338: what the result of a request of the retry loop leads
\* to. The closure's Err makes retry() sleep and call it again, and the
\* delay iterator Exponential::from_millis(200) never ends.
RetryOutcome(r) ==
    IF ~r.sent THEN "retry"
    ELSE IF is_success(r.status) \/ r.status = NOT_FOUND THEN "ok"
    ELSE IF error_for_status(r.status) THEN "retry"
    ELSE "ok"

\* Sonarr after answering a DELETE for file f with r: the file is gone when
\* it says so (deleted now, or not found).
FilesAfterDelete(files, f, r) ==
    IF r.sent /\ (is_success(r.status) \/ r.status = NOT_FOUND)
    THEN files \ {f}
    ELSE files

\* The season filter left out.
SeasonFilesUnfiltered(files, season) == files

\* series_files.iter().filter(|f| f.season_number == season.season_number)
SeasonFiles(files, season) ==
    SelectSeq(files, LAMBDA f : f.season_number = season.season_number)

\* Nothing deleted in either mode.
DoDeleteNever(flag) == FALSE

\* The flag ignored.
DoDeleteAlways(flag) == TRUE

\* if self.delete_files { ... }
DoDelete(flag) == flag

\* The flag flipped instead of cleared.
MonitorToggled(season) == [season EXCEPT !.monitored = ~@]

\* series.seasons[i].monitored = false
Unmonitored(season) == [season EXCEPT !.monitored = FALSE]

\* GET series: Sonarr computes a season's size_on_disk from the files it
\* holds, so a season whose files are all gone is listed with size 0.
Listing(all, files) ==
    [i \in DOMAIN all |->
        [all[i] EXCEPT !.seasons =
            [j \in DOMAIN @ |->
                IF \E f \in files : /\ f.series_id = all[i].id
                                    /\ f.season_number = @[j].season_number
                THEN @[j]
                ELSE [@[j] EXCEPT !.statistics.size_on_disk = 0]]]]

\* A set of files as the list Sonarr answers with, in ID order.
RECURSIVE FileList(_)
FileList(S) ==
    IF S = {} THEN <<>>
    ELSE LET f == CHOOSE x \in S : \A y \in S : x.id <= y.id
         IN  <<f>> \o FileList(S \ {f})

\* GET episodefile?seriesId=<id>
FilesOfSeries(files, id) == FileList({f \in files : f.series_id = id})

\* ------------------------------------------------------------- variables

VARIABLES
    delete_files,      \* TVCommand.delete_files (-f)
    retain_tag_name,   \* config.retention.retain_tag, an Option
    retain_duration,   \* config.retention.retain_duration
    cli_retain_for,    \* TVCommand.retain_for (--retain-for), an Option
    file_config,       \* the configuration file
    app_config,        \* the loaded configuration app_config() returns
    now,               \* the wall clock Utc::now() reads
    srvTags,           \* Sonarr: its tags
    srvSeries,         \* Sonarr: its series records, in listing order
    srvFiles,          \* Sonarr: its episode files
    plexSeasons,       \* Plex: the season entries of its libraries
    pc,                \* position of TVCommand::run
    retain_tag,        \* the resolved (label, id), an Option
    watched_seasons,   \* HashSet<(String, String)>
    serieses,          \* result of fetch_all_series
    si, sj,            \* decision pass: series index, season index
    kept,              \* the inner filter_map's seasons collected so far
    to_delete,         \* HashMap<&Series, Vec<&Season>>
    verdicts,          \* history: (series id, season number) -> verdict
    pending,           \* entries of to_delete the for loop has not visited
    cur,               \* the entry being visited, an Option
    series_files,      \* result of fetch_episode_files for cur
    sk,                \* index into cur's seasons
    season_files,      \* the files of season sk
    fi,                \* index into season_files
    fetched_series,    \* unmonitor_season: the record fetch_series returned
    attempts,          \* delete_episode_file: requests sent by the retry loop
    lastResp,          \* delete_episode_file: the last response, an Option
    delResult,         \* delete_episode_file: "none", "retrying", "ok", "err"
    fetchCalls,        \* history: series id -> fetch_episode_files calls
    returnedFiles,     \* history: files fetch_episode_files returned
    unmonitorCalls,    \* history: (series id, season) of unmonitor_season calls
    updateCalls,       \* history: (series id, season) of series updates sent
    deleteIssued,      \* history: files a DELETE request was sent for
    unmonitorDone,     \* history: (series id, season) unmonitor_season returned Ok for
    reports,           \* history: the "delete N files" lines, in order
    failed,            \* history: the call whose error ended the run, or "none"
    run,               \* "first", or "again" for a run after an earlier one
    removedEarlier,    \* files the earlier run left removed
    othersWrote,       \* another client: (series id, tag id) it added to a record
    othersDropped      \* another client: (series id, season) it took out of a record

config == <<delete_files, retain_tag_name, retain_duration, cli_retain_for,
            file_config, app_config>>

servers == <<srvTags, srvSeries, srvFiles, plexSeasons>>

setup == <<retain_tag, watched_seasons, serieses>>

decision == <<si, sj, kept, to_delete, verdicts>>

loop == <<pending, cur, series_files, sk, season_files, fi, fetched_series>>

call == <<attempts, lastResp, delResult>>

history == <<fetchCalls, returnedFiles, unmonitorCalls, updateCalls,
             deleteIssued, unmonitorDone, reports>>

rerun == <<run, removedEarlier>>

shared == <<othersWrote, othersDropped>>

vars == <<config, now, servers, pc, setup, decision, loop, call, history,
          failed, rerun,
                   shared>>

\* ------------------------------------------------------------------ Init

\* The inventory: two series, "X" with seasons 1 and 2, "Y" with season 1.
Inventory(tags1, tags2, a, b, c) ==
    << Series(1, "X", tags1, <<Season(1, a), Season(2, b)>>),
       Series(2, "Y", tags2, <<Season(1, c)>>) >>

\* The episode files Sonarr can hold for that inventory.
AllFiles ==
    {EpisodeFile(1, 1, 1), EpisodeFile(2, 1, 1), EpisodeFile(3, 1, 2),
     EpisodeFile(4, 2, 1)}

SeriesSet(inv) == {inv[i] : i \in DOMAIN inv}

SeasonSet(series) == {series.seasons[j] : j \in DOMAIN series.seasons}

\* A season that occupies no space has no files.
FilesOf(inv) ==
    {f \in AllFiles :
        \E s \in SeriesSet(inv) : \E z \in SeasonSet(s) :
            /\ s.id = f.series_id
            /\ z.season_number = f.season_number
            /\ z.statistics.size_on_disk > 0}

\* Seasons as the full run meets them: aired a while ago or still airing.
Aired == SeasonStats({}, {MaxNow - 2}, 5)

Airing == SeasonStats({MaxNow}, {MaxNow - 2}, 5)

RunStats == {Aired, Airing}

\* Every combination of the statistics the decision reads.
AllStats ==
    {SeasonStats(n, p, s) :
        n \in {{}, {MaxNow}}, p \in OptTimes, s \in SizesOnDisk}

X1Full == PlexSeason("X", "Season 1", 2, 2)

X1Partial == PlexSeason("X", "Season 1", 2, 1)

X1Unplayed == PlexSeason("X", "Season 1", 0, 0)

X2Full == PlexSeason("X", "Season 2", 2, 2)

X2Partial == PlexSeason("X", "Season 2", 2, 1)

Y1Full == PlexSeason("Y", "Season 1", 2, 2)

\* What a run starts with.
InitLocals ==
    /\ retain_tag = {}
    /\ watched_seasons = {}
    /\ serieses = <<>>
    /\ si = 1
    /\ sj = 1
    /\ kept = <<>>
    /\ to_delete = {}
    /\ verdicts = <<>>
    /\ pending = {}
    /\ cur = {}
    /\ series_files = <<>>
    /\ sk = 1
    /\ season_files = <<>>
    /\ fi = 1
    /\ fetched_series = {}
    /\ attempts = 0
    /\ lastResp = {}
    /\ delResult = "none"
    /\ fetchCalls = [id \in {srvSeries[i].id : i \in DOMAIN srvSeries} |-> 0]
    /\ returnedFiles = {}
    /\ unmonitorCalls = {}
    /\ updateCalls = {}
    /\ deleteIssued = {}
    /\ unmonitorDone = {}
    /\ reports = <<>>
    /\ failed = "none"
    /\ removedEarlier = {}
    /\ othersWrote = {}
    /\ othersDropped = {}

InitRest ==
    /\ now = MaxNow - 1
    /\ pc = "tags"
    /\ run = "first"
    /\ InitLocals

\* The configuration as loaded, with no --retain-for on the command line.
Loaded ==
    /\ cli_retain_for = {}
    /\ file_config = FileConfig("sonarr", retain_tag_name, {retain_duration})
    /\ app_config = override_config(cli_retain_for, ParseConfig(file_config))

InitConfig ==
    /\ retain_tag_name \in {{}, {KeepLabel}}
    /\ retain_duration \in RetainDurations
    /\ Loaded
    /\ srvTags \in {{OtherTag}, {KeepTag, OtherTag}}

\* The full run.
Init ==
    /\ delete_files \in BOOLEAN
    /\ InitConfig
    /\ \E tags1 \in {{}, {KeepTag.id}},
          tags2 \in {{OtherTag.id}, {KeepTag.id, OtherTag.id}},
          a \in RunStats, b \in RunStats :
            srvSeries = Inventory(tags1, tags2, a, b, Aired)
    /\ srvFiles = FilesOf(srvSeries)
    /\ plexSeasons \in {{TV(X1Full), TV(X2Full), TV(Y1Full)},
                        {TV(X1Partial), TV(X2Full), TV(Y1Full)}}
    /\ InitRest

\* The decision pass over every kind of season.
InitEngine ==
    /\ delete_files = FALSE
    /\ InitConfig
    /\ \E tags1 \in {{}, {KeepTag.id}},
          tags2 \in {{OtherTag.id}, {KeepTag.id, OtherTag.id}},
          a \in AllStats, b \in RunStats :
            srvSeries = Inventory(tags1, tags2, a, b, Aired)
    /\ srvFiles = FilesOf(srvSeries)
    /\ \E x1 \in {{}, {X1Full}, {X1Partial}, {X1Unplayed}},
          x2 \in {{X2Full}, {X2Partial}} :
            plexSeasons = {TV(z) : z \in x1 \cup x2 \cup {Y1Full}}
    /\ InitRest

\* A fully watched season listed outside the real seasons of a TV library.
X2Elsewhere ==
    {PlexEntry("show", "AllEpisodes", X2Full), PlexEntry("movie", "TVSeason", X2Full)}

\* The configuration before the file is read.
DefaultConfig == ParseConfig(FileConfig("default", {}, {}))

\* Start-up: every command line and configuration file, and Plex listings
\* with entries all_tv_seasons leaves out.
InitSetup ==
    /\ delete_files = FALSE
    /\ cli_retain_for \in {{}} \cup {{d} : d \in RetainDurations}
    /\ \E t \in {{}, {KeepLabel}}, d \in {{}} \cup {{x} : x \in RetainDurations} :
         file_config = FileConfig("sonarr", t, d)
    /\ app_config = DefaultConfig
    /\ retain_tag_name = DefaultConfig.retention.retain_tag
    /\ retain_duration = DefaultConfig.retention.retain_duration
    /\ srvTags \in {{OtherTag}, {KeepTag, OtherTag}}
    /\ \E tags1 \in {{}, {KeepTag.id}}, a \in RunStats :
         srvSeries = Inventory(tags1, {OtherTag.id}, a, Aired, Aired)
    /\ srvFiles = FilesOf(srvSeries)
    /\ \E x1 \in {{}, {X1Full}, {X1Partial}, {X1Unplayed}},
          x2 \in {{TV(X2Full)}} \cup {{TV(X2Partial), e} : e \in X2Elsewhere} :
            plexSeasons = {TV(z) : z \in x1 \cup {Y1Full}} \cup x2
    /\ now = MaxNow - 1
    /\ pc = "config"
    /\ run = "first"
    /\ InitLocals

\* A run that deletes, with a retention of zero, so that a season old
\* enough for one run is old enough for the next.
InitRerun ==
    /\ delete_files = TRUE
    /\ retain_tag_name \in {{}, {KeepLabel}}
    /\ retain_duration = 0
    /\ Loaded
    /\ srvTags = {KeepTag, OtherTag}
    /\ \E tags2 \in {{OtherTag.id}, {KeepTag.id, OtherTag.id}}, a \in RunStats :
         srvSeries = Inventory({}, tags2, a, Aired, Aired)
    /\ srvFiles = FilesOf(srvSeries)
    /\ plexSeasons = {TV(X1Full), TV(X2Full), TV(Y1Full)}
    /\ InitRest

\* A run that deletes while another client of Sonarr is at work.
InitShared ==
    /\ delete_files = TRUE
    /\ retain_tag_name = {KeepLabel}
    /\ retain_duration = 0
    /\ Loaded
    /\ srvTags = {KeepTag, OtherTag}
    /\ \E tags2 \in {{OtherTag.id}, {KeepTag.id, OtherTag.id}}, a \in RunStats :
         srvSeries = Inventory({OtherTag.id}, tags2, a, Aired, Aired)
    /\ srvFiles = FilesOf(srvSeries)
    /\ plexSeasons = {TV(X1Full), TV(X2Full), TV(Y1Full)}
    /\ InitRest

\* ---------------------------------------------------------------- set-up

Panic == pc' = "panic"

\* application.rs: the configuration file is loaded; tv.rs 41-52:
\* override_config changes it before run reads it.
LoadConfig ==
    /\ pc = "config"
    /\ LET cfg == override_config(cli_retain_for, ParseConfig(file_config))
       IN  /\ app_config' = cfg
           /\ retain_tag_name' = cfg.retention.retain_tag
           /\ retain_duration' = cfg.retention.retain_duration
    /\ pc' = "tags"
    /\ UNCHANGED <<delete_files, cli_retain_for, file_config, now, servers,
                   setup, decision, loop, call, history, failed, rerun,
                   shared>>

\* tv.rs 61-67: resolve the exemption tag, if one is configured.
FetchTags ==
    /\ pc = "tags"
    /\ IF retain_tag_name = {}
       THEN /\ retain_tag' = {}
            /\ pc' = "plex"
            /\ failed' = failed
       ELSE \E ok \in BOOLEAN :
              LET found == UNION {TagsGet(srvTags, name) : name \in retain_tag_name}
              IN  /\ retain_tag' = IF ok /\ found # {} THEN found ELSE retain_tag
                  /\ pc' = Expect(ok /\ found # {}, "plex")
                  /\ failed' = IF ok /\ found # {} THEN failed ELSE "tags"
    /\ UNCHANGED <<config, now, servers, watched_seasons, serieses, decision,
                   loop, call, history, rerun,
                   shared>>

\* tv.rs 70-78: the watched set.
FetchWatched ==
    /\ pc = "plex"
    /\ \E ok \in BOOLEAN :
         /\ watched_seasons' =
              IF ok THEN WatchedSet(all_tv_seasons(plexSeasons))
              ELSE watched_seasons
         /\ pc' = Expect(ok, "series")
         /\ failed' = IF ok THEN failed ELSE "plex"
    /\ UNCHANGED <<config, now, servers, retain_tag, serieses, decision, loop,
                   call, history, rerun,
                   shared>>

\* tv.rs 80-82: the inventory.
FetchAllSeries ==
    /\ pc = "series"
    /\ \E ok \in BOOLEAN :
         /\ serieses' = IF ok THEN Listing(srvSeries, srvFiles) ELSE serieses
         /\ pc' = Expect(ok, "decide")
         /\ failed' = IF ok THEN failed ELSE "series"
    /\ UNCHANGED <<config, now, servers, retain_tag, watched_seasons, decision,
                   loop, call, history, rerun,
                   shared>>

\* ------------------------------------------------------- decision pass

\* Time passes while the pass runs; Utc::now() is read once per season.
Tick ==
    /\ pc = "decide"
    /\ now < MaxNow
    /\ now' = now + 1
    /\ UNCHANGED <<config, servers, pc, setup, decision, loop, call, history,
                   failed, rerun,
                   shared>>

\* The pass moves on to the next series, or ends (tv.rs 160-162).
NextSeries ==
    /\ si' = si + 1
    /\ sj' = 1
    /\ kept' = <<>>
    /\ IF si + 1 > Len(serieses)
       THEN /\ pc' = "orchestrate"
            /\ pending' = to_delete'
       ELSE /\ pc' = pc
            /\ pending' = pending

\* tv.rs 87-92: a series carrying the exemption tag is left out whole.
SkipSeries ==
    /\ pc = "decide"
    /\ si <= Len(serieses)
    /\ Exempt(serieses[si], retain_tag)
    /\ to_delete' = to_delete
    /\ NextSeries
    /\ UNCHANGED <<config, now, servers, setup, verdicts, cur, series_files,
                   sk, season_files, fi, fetched_series, call, history, failed,
                   rerun,
                   shared>>

\* tv.rs 97-152: the per-season closure, for season sj of series si.
DecideSeason ==
    /\ pc = "decide"
    /\ si <= Len(serieses)
    /\ ~Exempt(serieses[si], retain_tag)
    /\ sj <= Len(serieses[si].seasons)
    /\ LET series == serieses[si]
           season == series.seasons[sj]
           v == Verdict(watched_seasons, series, season, retain_duration, now)
           logs == v = "young" /\ season.statistics.previous_airing # {}
       IN  \E t \in now..MaxNow :
             /\ logs \/ t = now
             /\ now' = t
             /\ IF logs /\ AgeLogPanics(season, retain_duration, t)
                THEN /\ Panic
                     /\ failed' = "agelog"
                     /\ verdicts' = Append(verdicts,
                          [series |-> series.id, season |-> season.season_number,
                           at |-> now, verdict |-> "panic", log |-> {}])
                     /\ UNCHANGED <<sj, kept>>
                ELSE /\ pc' = pc
                     /\ failed' = failed
                     /\ verdicts' = Append(verdicts,
                          [series |-> series.id, season |-> season.season_number,
                           at |-> now, verdict |-> v,
                           log |-> SkipLog(watched_seasons, series, season,
                                           retain_duration, now)])
                     /\ kept' = IF v = "eligible" THEN Append(kept, season) ELSE kept
                     /\ sj' = sj + 1
    /\ UNCHANGED <<config, servers, setup, si, to_delete, loop, call, history,
                   rerun,
                   shared>>

\* tv.rs 154-158: a series with no eligible season gets no entry.
CollectSeries ==
    /\ pc = "decide"
    /\ si <= Len(serieses)
    /\ ~Exempt(serieses[si], retain_tag)
    /\ sj > Len(serieses[si].seasons)
    /\ to_delete' = Collect(to_delete, serieses[si], kept)
    /\ NextSeries
    /\ UNCHANGED <<config, now, servers, setup, verdicts, cur, series_files,
                   sk, season_files, fi, fetched_series, call, history, failed,
                   rerun,
                   shared>>

\* ---------------------------------------------------- orchestration

\* tv.rs 162-165: the next entry of to_delete, in the map's own order, and
\* its files.
FetchEpisodeFiles ==
    /\ pc = "orchestrate"
    /\ \E e \in pending : \E ok \in BOOLEAN :
         /\ fetchCalls' = [fetchCalls EXCEPT ![e.series.id] = @ + 1]
         /\ IF ok
            THEN /\ cur' = {e}
                 /\ pending' = pending \ {e}
                 /\ series_files' = FilesOfSeries(srvFiles, e.series.id)
                 /\ returnedFiles' =
                      returnedFiles \cup {f \in srvFiles : f.series_id = e.series.id}
                 /\ sk' = 1
            ELSE UNCHANGED <<cur, pending, series_files, returnedFiles, sk>>
         /\ pc' = Expect(ok, "season")
         /\ failed' = IF ok THEN failed ELSE "fetch"
    /\ UNCHANGED <<config, now, servers, setup, decision, season_files, fi,
                   fetched_series, call, unmonitorCalls, updateCalls,
                   deleteIssued, unmonitorDone, reports, rerun,
                   shared>>

\* tv.rs 194: the for loop has visited every entry.
Finish ==
    /\ pc = "orchestrate"
    /\ pending = {}
    /\ pc' = "done"
    /\ UNCHANGED <<config, now, servers, setup, decision, loop, call, history,
                   failed, rerun,
                   shared>>

\* tv.rs 167-180: the season's files and its report line.
ReportSeason ==
    /\ pc = "season"
    /\ \E e \in cur :
         /\ sk <= Len(e.seasons)
         /\ LET season == e.seasons[sk]
                files == SeasonFiles(series_files, season)
            IN  /\ season_files' = files
                /\ reports' = Append(reports,
                     [series |-> e.series.id, season |-> season.season_number,
                      files |-> Len(files)])
                /\ fi' = 1
                /\ IF DoDelete(delete_files)
                   THEN pc' = "unmonitor" /\ sk' = sk
                   ELSE pc' = "season" /\ sk' = sk + 1
    /\ UNCHANGED <<config, now, servers, setup, decision, pending, cur,
                   series_files, fetched_series, call, fetchCalls,
                   returnedFiles, unmonitorCalls, updateCalls, deleteIssued,
                   unmonitorDone, failed, rerun,
                   shared>>

\* tv.rs 167, 193: every season of the entry has been handled.
SeriesDone ==
    /\ pc = "season"
    /\ \E e \in cur : sk > Len(e.seasons)
    /\ pc' = "orchestrate"
    /\ UNCHANGED <<config, now, servers, setup, decision, loop, call, history,
                   failed, rerun,
                   shared>>

\* sonarr.rs 296: unmonitor_season fetches the series record; its error is
\* the error of unmonitor_season, which tv.rs 183 unwraps.
UnmonitorFetch ==
    /\ pc = "unmonitor"
    /\ \E e \in cur : \E ok \in BOOLEAN :
         LET found == {s \in SeriesSet(srvSeries) : s.id = e.series.id}
         IN  /\ unmonitorCalls' =
                  unmonitorCalls \cup {<<e.series.id, e.seasons[sk].season_number>>}
             /\ IF ok /\ found # {}
                THEN /\ fetched_series' = found
                     /\ pc' = "update"
                     /\ failed' = failed
                ELSE /\ fetched_series' = fetched_series
                     /\ pc' = Expect(FALSE, "delete")
                     /\ failed' = "unmonitor"
    /\ UNCHANGED <<config, now, servers, setup, decision, pending, cur,
                   series_files, sk, season_files, fi, call, fetchCalls,
                   returnedFiles, updateCalls, deleteIssued, unmonitorDone,
                   reports, rerun,
                   shared>>

\* A series record read without the flattened extra map of the record: the
\* tags are not carried.
UpdateSeriesBare(series) ==
    [id |-> series.id,
     seasons |->
        [j \in DOMAIN series.seasons |->
            [season_number |-> series.seasons[j].season_number,
             monitored |-> series.seasons[j].monitored,
             extra |-> [statistics |-> series.seasons[j].statistics]]],
     extra |-> [title |-> series.title, tags |-> {}]]

\* sonarr.rs 272-294: the series record as unmonitor_season reads it: id and
\* seasons (season_number, monitored) by name, every other key in the
\* flattened extra maps.
UpdateSeries(series) ==
    [id |-> series.id,
     seasons |->
        [j \in DOMAIN series.seasons |->
            [season_number |-> series.seasons[j].season_number,
             monitored |-> series.seasons[j].monitored,
             extra |-> [statistics |-> series.seasons[j].statistics]]],
     extra |-> [title |-> series.title, tags |-> series.tags]]

\* serde_json::to_vec(&series) in update_series: the record the PUT carries.
Serialized(u) ==
    [id |-> u.id,
     title |-> u.extra.title,
     tags |-> u.extra.tags,
     seasons |->
        [j \in DOMAIN u.seasons |->
            [season_number |-> u.seasons[j].season_number,
             monitored |-> u.seasons[j].monitored,
             statistics |-> u.seasons[j].extra.statistics]]]

\* The index of the first season of the record with the given number, as an
\* Option (sonarr.rs 297-301).
FindSeason(series, n) ==
    {i \in DOMAIN series.seasons :
        /\ series.seasons[i].season_number = n
        /\ \A j \in 1..(i - 1) : series.seasons[j].season_number # n}

\* Sonarr after PUT series/<id> with the given record.
SeriesAfterUpdate(all, record) ==
    [i \in DOMAIN all |-> IF all[i].id = record.id THEN record ELSE all[i]]

\* sonarr.rs 297-306: clear the season's monitored flag and send the record
\* back, if the record has the season; tv.rs 183 unwraps the result.
UnmonitorUpdate ==
    /\ pc = "update"
    /\ \E e \in cur : \E fetched \in fetched_series : \E ok \in BOOLEAN :
         LET n == e.seasons[sk].season_number
             series == UpdateSeries(fetched)
             at == FindSeason(series, n)
         IN  /\ at = {} => ok
             /\ updateCalls' =
                  IF at = {} THEN updateCalls
                  ELSE updateCalls \cup {<<series.id, n>>}
             /\ srvSeries' =
                  IF at # {} /\ ok
                  THEN SeriesAfterUpdate(srvSeries,
                         Serialized([series EXCEPT !.seasons =
                            [i \in DOMAIN @ |->
                               IF i \in at THEN Unmonitored(@[i]) ELSE @[i]]]))
                  ELSE srvSeries
             /\ unmonitorDone' =
                  IF ok THEN unmonitorDone \cup {<<e.series.id, n>>}
                  ELSE unmonitorDone
             /\ pc' = Expect(ok, "delete")
             /\ failed' = IF ok THEN failed ELSE "unmonitor"
    /\ fetched_series' = {}
    /\ UNCHANGED <<config, now, srvTags, srvFiles, plexSeasons, setup,
                   decision, pending, cur, series_files, sk, season_files, fi,
                   call, fetchCalls, returnedFiles, unmonitorCalls,
                   deleteIssued, reports, rerun,
                   shared>>

\* sonarr.rs 310-345: delete_episode_file sends its first request.
DeleteFirst ==
    /\ pc = "delete"
    /\ fi <= Len(season_files)
    /\ \E r \in Responses :
         LET f == season_files[fi]
             out == FirstOutcome(r)
         IN  /\ deleteIssued' = deleteIssued \cup {f}
             /\ srvFiles' = FilesAfterDelete(srvFiles, f, r)
             /\ lastResp' = {r}
             /\ attempts' = 0
             /\ delResult' = IF out = "retry" THEN "retrying" ELSE out
             /\ fi' = IF out = "ok" THEN fi + 1 ELSE fi
             /\ pc' = IF out = "retry" THEN "retry"
                      ELSE Expect(out = "ok", "delete")
             /\ failed' = IF out = "err" THEN "delete" ELSE failed
    /\ UNCHANGED <<config, now, srvTags, srvSeries, plexSeasons, setup,
                   decision, pending, cur, series_files, sk, season_files,
                   fetched_series, fetchCalls, returnedFiles, unmonitorCalls,
                   updateCalls, unmonitorDone, reports, rerun,
                   shared>>

\* sonarr.rs 323-338: one more request of the retry loop.
DeleteRetry ==
    /\ pc = "retry"
    /\ \E r \in Responses :
         LET f == season_files[fi]
             out == RetryOutcome(r)
         IN  /\ srvFiles' = FilesAfterDelete(srvFiles, f, r)
             /\ lastResp' = {r}
             /\ attempts' = IF attempts < MaxAttempts THEN attempts + 1 ELSE attempts
             /\ delResult' = IF out = "retry" THEN "retrying" ELSE out
             /\ fi' = IF out = "ok" THEN fi + 1 ELSE fi
             /\ pc' = IF out = "retry" THEN "retry"
                      ELSE Expect(out = "ok", "delete")
             /\ failed' = IF out = "err" THEN "delete" ELSE failed
    /\ UNCHANGED <<config, now, srvTags, srvSeries, plexSeasons, setup,
                   decision, pending, cur, series_files, sk, season_files,
                   fetched_series, history, rerun,
                   shared>>

\* tv.rs 187-193: every file of the season has been deleted.
SeasonDone ==
    /\ pc = "delete"
    /\ fi > Len(season_files)
    /\ sk' = sk + 1
    /\ pc' = "season"
    /\ UNCHANGED <<config, now, servers, setup, decision, pending, cur,
                   series_files, season_files, fi, fetched_series, call,
                   history, failed, rerun,
                   shared>>

\* The process has ended, by a panic or at any other point of the
\* orchestration, and the command is started again: the run's own state is
\* new, Sonarr is as the earlier run left it.
Restart ==
    /\ run = "first"
    /\ pc \in {"orchestrate", "season", "unmonitor", "update", "delete",
               "retry", "done", "panic"}
    /\ run' = "again"
    /\ removedEarlier' = FilesOf(srvSeries) \ srvFiles
    /\ pc' = "tags"
    /\ retain_tag' = {}
    /\ watched_seasons' = {}
    /\ serieses' = <<>>
    /\ si' = 1
    /\ sj' = 1
    /\ kept' = <<>>
    /\ to_delete' = {}
    /\ verdicts' = <<>>
    /\ pending' = {}
    /\ cur' = {}
    /\ series_files' = <<>>
    /\ sk' = 1
    /\ season_files' = <<>>
    /\ fi' = 1
    /\ fetched_series' = {}
    /\ attempts' = 0
    /\ lastResp' = {}
    /\ delResult' = "none"
    /\ fetchCalls' = [id \in DOMAIN fetchCalls |-> 0]
    /\ returnedFiles' = {}
    /\ unmonitorCalls' = {}
    /\ updateCalls' = {}
    /\ deleteIssued' = {}
    /\ unmonitorDone' = {}
    /\ reports' = <<>>
    /\ failed' = "none"
    /\ UNCHANGED <<config, now, servers, shared>>

NextEngine ==
    \/ FetchTags
    \/ FetchWatched
    \/ FetchAllSeries
    \/ Tick
    \/ SkipSeries
    \/ DecideSeason
    \/ CollectSeries

SpecEngine == InitEngine /\ [][NextEngine]_vars

Next ==
    \/ FetchTags
    \/ FetchWatched
    \/ FetchAllSeries
    \/ Tick
    \/ SkipSeries
    \/ DecideSeason
    \/ CollectSeries
    \/ FetchEpisodeFiles
    \/ Finish
    \/ ReportSeason
    \/ SeriesDone
    \/ UnmonitorFetch
    \/ UnmonitorUpdate
    \/ DeleteFirst
    \/ DeleteRetry
    \/ SeasonDone

Spec == Init /\ [][Next]_vars

\* The record with one more tag.
Tagged(series, t) == [series EXCEPT !.tags = @ \cup {t}]

\* The record without its seasons of the given number.
WithoutSeason(series, n) ==
    [series EXCEPT !.seasons = SelectSeq(@, LAMBDA z : z.season_number # n)]

\* Between the GET of sonarr.rs 296 and the PUT of sonarr.rs 304 another
\* client of Sonarr adds a tag to the series record.
OtherClientTags ==
    /\ pc = "update"
    /\ othersWrote = {}
    /\ \E series \in fetched_series :
       \E t \in {tag.id : tag \in srvTags} \ series.tags :
         /\ srvSeries' =
              [i \in DOMAIN srvSeries |->
                  IF srvSeries[i].id = series.id THEN Tagged(srvSeries[i], t)
                  ELSE srvSeries[i]]
         /\ othersWrote' = {<<series.id, t>>}
    /\ UNCHANGED <<config, now, srvTags, srvFiles, plexSeasons, pc, setup,
                   decision, loop, call, history, failed, rerun, othersDropped>>

\* Between the listing of tv.rs 80-82 and the GET of sonarr.rs 296 the
\* record of the series loses the season the run is about to unmonitor.
OtherClientSeasons ==
    /\ pc = "unmonitor"
    /\ othersDropped = {}
    /\ \E e \in cur :
         LET n == e.seasons[sk].season_number
         IN  /\ srvSeries' =
                  [i \in DOMAIN srvSeries |->
                      IF srvSeries[i].id = e.series.id
                      THEN WithoutSeason(srvSeries[i], n)
                      ELSE srvSeries[i]]
             /\ othersDropped' = {<<e.series.id, n>>}
    /\ UNCHANGED <<config, now, srvTags, srvFiles, plexSeasons, pc, setup,
                   decision, loop, call, history, failed, rerun, othersWrote>>

NextShared ==
    \/ Next
    \/ OtherClientTags
    \/ OtherClientSeasons

SpecShared == InitShared /\ [][NextShared]_vars

NextSetup ==
    \/ LoadConfig
    \/ NextEngine

SpecSetup == InitSetup /\ [][NextSetup]_vars

NextRerun ==
    \/ Next
    \/ Restart

SpecRerun == InitRerun /\ [][NextRerun]_vars

\* ----------------------------------------------------------- properties

Range(seq) == {seq[i] : i \in DOMAIN seq}

\* Season z of series s is in the eligible set.
InDecision(s, z) == \E e \in to_delete : e.series = s /\ z \in Range(e.seasons)

\* Series s carries the tag the configuration names.
HasRetainTag(s) ==
    \E t \in srvTags : t.label \in retain_tag_name /\ t.id \in s.tags

\* The clock values season z of series s was checked against.
CheckedAt(s, z) ==
    {v.at : v \in {w \in Range(verdicts) :
                     w.series = s.id /\ w.season = z.season_number}}

\* The verdicts recorded for season z of series s.
VerdictsOf(s, z) ==
    {v.verdict : v \in {w \in Range(verdicts) :
                          w.series = s.id /\ w.season = z.season_number}}

InWatchedSet(s, z) ==
    \E p \in watched_seasons :
        p[1] = s.title /\ p[2] = "Season " \o ToString(z.season_number)

DecisionComplete == pc = "orchestrate"

\* C1: once the decision pass is complete, a season of the inventory is in
\* the eligible set exactly when its series does not carry the configured
\* exemption tag, (title, "Season <n>") is in the watched set, next_airing is
\* absent, previous_airing is present with previous_airing + retain_duration
\* before the clock value the season was checked against, and size_on_disk > 0.
C1_EligibleIff ==
    DecisionComplete =>
        \A s \in Range(serieses) : \A z \in Range(s.seasons) :
            InDecision(s, z) <=>
                /\ ~HasRetainTag(s)
                /\ InWatchedSet(s, z)
                /\ z.statistics.next_airing = {}
                /\ \E air \in z.statistics.previous_airing :
                     \E t \in CheckedAt(s, z) : air + retain_duration < t
                /\ z.statistics.size_on_disk > 0

\* Scenario A next to scenario B: one season is eligible while another was
\* turned down for its age alone.
C1_Witness ==
    /\ DecisionComplete
    /\ \E s \in Range(serieses) : \E z \in Range(s.seasons) : InDecision(s, z)
    /\ \E v \in Range(verdicts) : v.verdict = "young"
    /\ \E v \in Range(verdicts) : v.verdict = "unwatched"

\* C2: in dry-run mode no unmonitor_season call (neither its fetch nor its
\* update) and no DELETE is ever issued, and Sonarr's series and files stay
\* as they were.
C2_DryRunReadsOnly ==
    ~delete_files =>
        /\ unmonitorCalls = {}
        /\ updateCalls = {}
        /\ deleteIssued = {}
        /\ srvFiles = FilesOf(srvSeries)
        /\ \A s \in Range(srvSeries) : \A z \in Range(s.seasons) : z.monitored

\* A finished dry run that reported seasons with files.
C2_Witness ==
    /\ ~delete_files
    /\ pc = "done"
    /\ \E i \in DOMAIN reports : reports[i].files > 0

\* C3: every file a DELETE was sent for was returned by fetch_episode_files,
\* belongs to a series of the decision that is not exempt, and has the season
\* number of one of that series' eligible seasons.
C3_DeletesOnlyEligible ==
    \A f \in deleteIssued :
        /\ f \in returnedFiles
        /\ \E e \in to_delete :
             /\ e.series.id = f.series_id
             /\ ~HasRetainTag(e.series)
             /\ \E z \in Range(e.seasons) : z.season_number = f.season_number

\* A finished run that deleted files of one season and spared a fetched
\* file of another season of the same series.
C3_Witness ==
    /\ pc = "done"
    /\ \E f \in deleteIssued : \E g \in returnedFiles \ deleteIssued :
         f.series_id = g.series_id /\ f.season_number # g.season_number

\* C4: with an exemption tag configured, a series whose tags contain the
\* tag's ID has no season in the eligible set (nor among the seasons being
\* collected), and no fetch_episode_files, unmonitor_season or DELETE is
\* issued for it.
C4_ExemptUntouched ==
    retain_tag_name # {} =>
        \A s \in Range(serieses) :
            HasRetainTag(s) =>
                /\ \A z \in Range(s.seasons) : ~InDecision(s, z)
                /\ \A e \in to_delete : e.series.id # s.id
                /\ (pc = "decide" /\ si \in DOMAIN serieses /\ serieses[si] = s)
                      => kept = <<>>
                /\ fetchCalls[s.id] = 0
                /\ \A c \in unmonitorCalls \cup updateCalls : c[1] # s.id
                /\ \A f \in deleteIssued : f.series_id # s.id

\* A finished executing run in which an exempt series had a watched, aired,
\* non-empty season while files of another series were deleted.
C4_Witness ==
    /\ pc = "done"
    /\ delete_files
    /\ deleteIssued # {}
    /\ \E s \in Range(serieses) :
         /\ HasRetainTag(s)
         /\ \E z \in Range(s.seasons) :
              /\ InWatchedSet(s, z)
              /\ z.statistics.next_airing = {}
              /\ \E air \in z.statistics.previous_airing :
                   air + retain_duration < now
              /\ z.statistics.size_on_disk > 0

\* C5: a season whose next_airing is present is never in the eligible set
\* and never gets the verdict "eligible".
C5_AiringNeverEligible ==
    \A s \in Range(serieses) : \A z \in Range(s.seasons) :
        z.statistics.next_airing # {} =>
            /\ ~InDecision(s, z)
            /\ "eligible" \notin VerdictsOf(s, z)
            /\ (pc = "decide" /\ si \in DOMAIN serieses /\ serieses[si] = s)
                  => z \notin Range(kept)

\* Scenario D: a watched, old enough, non-empty season of a series that is
\* not exempt has been checked, and next_airing is all that speaks against it.
C5_Witness ==
    \E s \in Range(serieses) : \E z \in Range(s.seasons) :
        /\ z.statistics.next_airing # {}
        /\ VerdictsOf(s, z) # {}
        /\ InWatchedSet(s, z)
        /\ \E air \in z.statistics.previous_airing :
             \E t \in CheckedAt(s, z) : air + retain_duration < t
        /\ z.statistics.size_on_disk > 0

\* The season passed the age check: the closure got as far as the size check.
PassedAgeCheck(s, z) == VerdictsOf(s, z) \cap {"empty", "eligible"} # {}

\* The closure reached the age check for the season.
ReachedAgeCheck(s, z) ==
    VerdictsOf(s, z) \cap {"young", "empty", "eligible", "panic"} # {}

\* C6: a season with previous_airing absent is never eligible; a season with
\* previous_airing + retain_duration >= the clock value it was checked
\* against is never eligible; with retain_duration zero a season that
\* reaches the age check passes it exactly when previous_airing is before
\* that clock value.
C6_AgeCheckStrict ==
    \A s \in Range(serieses) : \A z \in Range(s.seasons) :
        /\ z.statistics.previous_airing = {} =>
             ~InDecision(s, z) /\ ~PassedAgeCheck(s, z)
        /\ (\E air \in z.statistics.previous_airing :
              \E t \in CheckedAt(s, z) : air + retain_duration >= t) =>
             ~InDecision(s, z) /\ ~PassedAgeCheck(s, z)
        /\ (retain_duration = 0 /\ ReachedAgeCheck(s, z)) =>
             (PassedAgeCheck(s, z) <=>
                \E air \in z.statistics.previous_airing :
                   \E t \in CheckedAt(s, z) : air < t)

\* The boundary: a watched season that is not airing was checked at exactly
\* previous_airing + retain_duration and turned down, and another season with
\* no previous_airing was turned down as well.
C6_Witness ==
    /\ DecisionComplete
    /\ \E s \in Range(serieses) : \E z \in Range(s.seasons) :
         /\ VerdictsOf(s, z) = {"young"}
         /\ \E air \in z.statistics.previous_airing :
              CheckedAt(s, z) = {air + retain_duration}

\* The latest DELETE of the latest delete_episode_file call was sent by its
\* retry loop.
InRetryLoop == lastResp # {} /\ attempts >= 1

\* The latest delete_episode_file call has returned.
Returned == delResult \in {"ok", "err"}

\* C7: whenever a DELETE is answered with not-found, on the first attempt as
\* on a retry, delete_episode_file returns success.
C7_NotFoundIsSuccess ==
    \A r \in lastResp :
        (r.sent /\ r.status = NOT_FOUND) => delResult = "ok"

\* C8: every 5xx answer and every connection failure of a DELETE, on the
\* first attempt as on a later one, is followed by a further attempt and is
\* not returned to the caller as an error.
C8_TransientIsRetried ==
    \A r \in lastResp :
        (~r.sent \/ is_server_error(r.status)) =>
            delResult = "retrying" /\ pc = "retry"

\* C9: a 4xx answer other than not-found, on the first attempt as on a
\* retry, makes delete_episode_file return an error, with no further attempt.
C9_ClientErrorIsFatal ==
    \A r \in lastResp :
        (r.sent /\ is_client_error(r.status) /\ r.status # NOT_FOUND) =>
            delResult = "err" /\ pc = "panic"

SeasonKey(f) == <<f.series_id, f.season_number>>

\* The season the orchestration is at.
CurrentKeys == {<<e.series.id, e.seasons[sk].season_number>> : e \in cur}

\* A call that changes Sonarr, or is made to change it, has been issued.
MutationIssued == unmonitorCalls # {} \/ updateCalls # {} \/ deleteIssued # {}

\* C11: a delete is issued only for a file of a season unmonitor_season has
\* returned Ok for; when unmonitor_season failed for a season, no delete has
\* been issued for a file of it, and none is issued afterwards.
C11_UnmonitorBeforeDelete ==
    /\ [](/\ \A f \in deleteIssued : SeasonKey(f) \in unmonitorDone
          /\ failed = "unmonitor" =>
               \A f \in deleteIssued : SeasonKey(f) \notin CurrentKeys)
    /\ [][failed = "unmonitor" => deleteIssued' = deleteIssued]_vars

\* unmonitor_season failed for a season whose files Sonarr holds, after the
\* files of an earlier season were deleted.
C11_Witness ==
    /\ failed = "unmonitor"
    /\ deleteIssued # {}
    /\ \E f \in srvFiles : SeasonKey(f) \in CurrentKeys

\* C12 as stated: when unmonitor_season has failed for a season and the run
\* has ended, every other eligible season is unmonitored and a delete has
\* been issued for each of its files.
C12_OtherSeasonsProceed ==
    (pc = "panic" /\ failed = "unmonitor") =>
        \A e \in to_delete : \A z \in Range(e.seasons) :
            <<e.series.id, z.season_number>> \notin CurrentKeys =>
                /\ <<e.series.id, z.season_number>> \in unmonitorDone
                /\ \A f \in FilesOf(srvSeries) :
                     SeasonKey(f) = <<e.series.id, z.season_number>> =>
                         f \in deleteIssued

\* C13 as stated: when delete_episode_file has returned an error for a file
\* and the run has ended, a delete has been issued for every file of that
\* season.
C13_SiblingsStillDeleted ==
    (pc = "panic" /\ failed = "delete") =>
        \A i \in DOMAIN season_files : season_files[i] \in deleteIssued

\* C14: an error of fetch_episode_files, unmonitor_season or
\* delete_episode_file ends the run at once; an ended run makes no call; and
\* no step gives back a file or sets a cleared monitored flag again.
C14_FirstErrorAborts ==
    /\ [](failed \in {"fetch", "unmonitor", "delete"} => pc = "panic")
    /\ [][pc = "panic" => pc' = "panic" /\ UNCHANGED <<servers, history>>]_vars
    /\ [][/\ srvFiles' \subseteq srvFiles
          /\ \A i \in DOMAIN srvSeries : \A j \in DOMAIN srvSeries[i].seasons :
               ~srvSeries[i].seasons[j].monitored =>
                   ~srvSeries'[i].seasons[j].monitored]_vars

\* A delete failed after a season was unmonitored and a file of it removed,
\* with another series still to come.
C14_Witness ==
    /\ pc = "panic"
    /\ failed = "delete"
    /\ pending # {}
    /\ srvFiles # FilesOf(srvSeries)
    /\ \E s \in Range(srvSeries) : \E z \in Range(s.seasons) : ~z.monitored

\* C15: when a mutating call has been issued, the exemption tag (if one is
\* configured) is resolved and the watched set and the inventory are fetched;
\* when the tag was not found or one of the three fetches failed, the run has
\* ended without a mutating call.
C15_SetupBeforeMutation ==
    /\ MutationIssued =>
         /\ pc \notin {"tags", "plex", "series"}
         /\ failed \notin {"tags", "plex", "series"}
         /\ retain_tag_name # {} => retain_tag # {}
         /\ watched_seasons = WatchedSet(all_tv_seasons(plexSeasons))
         /\ serieses # <<>>
    /\ failed \in {"tags", "plex", "series"} => pc = "panic" /\ ~MutationIssued

\* A delete was issued in a run with a configured, resolved exemption tag.
C15_Witness ==
    /\ deleteIssued # {}
    /\ updateCalls # {}
    /\ retain_tag_name # {}
    /\ retain_tag = {KeepTag}

\* The record of the season a verdict is about.
SeasonsOf(v) ==
    {z \in UNION {SeasonSet(s) : s \in {x \in Range(serieses) : x.id = v.series}} :
        z.season_number = v.season}

\* C16 as stated: every season of a run is checked at one and the same
\* instant, and two seasons with the same previous_airing that both came to
\* the age check got the same answer from it.
C16_OneDecisionInstant ==
    \A i \in DOMAIN verdicts : \A j \in DOMAIN verdicts :
        /\ verdicts[i].at = verdicts[j].at
        /\ \A y \in SeasonsOf(verdicts[i]) : \A z \in SeasonsOf(verdicts[j]) :
             (/\ y.statistics.previous_airing = z.statistics.previous_airing
              /\ verdicts[i].verdict \in {"young", "empty", "eligible"}
              /\ verdicts[j].verdict \in {"young", "empty", "eligible"})
                 => (verdicts[i].verdict = "young" <=> verdicts[j].verdict = "young")

\* C17: fetch_episode_files is called at most once per series and only for
\* a series with an entry in to_delete; no entry is empty; and when the run
\* is done it has been called for every entry.
C17_OneFetchPerEntry ==
    /\ \A id \in DOMAIN fetchCalls :
         /\ fetchCalls[id] <= 1
         /\ fetchCalls[id] = 1 => \E e \in to_delete : e.series.id = id
    /\ \A e \in to_delete : e.seasons # <<>>
    /\ pc = "done" => \A e \in to_delete : fetchCalls[e.series.id] = 1

\* The run is done: one fetch for a series with an eligible season, none
\* for a series that was looked at and has no eligible season.
C17_Witness ==
    /\ pc = "done"
    /\ \E e \in to_delete : fetchCalls[e.series.id] = 1
    /\ \E s \in Range(serieses) :
         /\ ~Exempt(s, retain_tag)
         /\ fetchCalls[s.id] = 0
         /\ \A e \in to_delete : e.series # s

WatchedBuilt ==
    \/ pc \in {"series", "decide", "orchestrate"}
    \/ failed \in {"series", "agelog"}

\* C20: the watched set holds (show name, season title) exactly when Plex
\* lists, in a TV library and not as an "All Episodes" pseudo-season, a
\* season of that name and title whose viewed count equals its episode count,
\* a season of no episodes included.
C20_WatchedSetIff ==
    WatchedBuilt =>
        /\ \A e \in plexSeasons :
             <<e.season.show_name, e.season.title>> \in watched_seasons <=>
                 \E x \in plexSeasons :
                    /\ x.library = "show"
                    /\ x.kind # "AllEpisodes"
                    /\ x.season.show_name = e.season.show_name
                    /\ x.season.title = e.season.title
                    /\ x.season.viewed_episodes = x.season.episodes
        /\ \A w \in watched_seasons :
             \E e \in plexSeasons : w = <<e.season.show_name, e.season.title>>

\* A season of no episodes is in the watched set; a season that is fully
\* watched only in an entry all_tv_seasons leaves out is not.
C20_Witness ==
    /\ WatchedBuilt
    /\ TV(X1Unplayed) \in plexSeasons
    /\ <<"X", "Season 1">> \in watched_seasons
    /\ X2Elsewhere \cap plexSeasons # {}
    /\ <<"X", "Season 2">> \notin watched_seasons

\* The decision, taken on Sonarr's records as the first run found them.
EligibleFromStart(s, z) ==
    /\ ~Exempt(s, retain_tag)
    /\ Verdict(WatchedSet(all_tv_seasons(plexSeasons)), s, z, retain_duration, now)
         = "eligible"

\* The files Sonarr held for a season before the first run.
FilesFromStart(s, z) ==
    {f \in FilesOf(srvSeries) : SeasonKey(f) = <<s.id, z.season_number>>}

\* C18: in a run started after an earlier run stopped at any point of its
\* orchestration, every delete is issued for a file Sonarr still holds, so
\* none for a file the earlier run removed; every season the run decides on
\* is found in the record unmonitor_season fetches; and when the run is done,
\* Sonarr is as after one complete run: every eligible season is unmonitored
\* and each of its files is removed or was answered without removal in this
\* run, every other season is monitored and has all its files.
C18_RerunIsSafe ==
    /\ [](run = "again" =>
            /\ deleteIssued \cap removedEarlier = {}
            /\ \A e \in to_delete : \A z \in Range(e.seasons) :
                 \E s \in Range(srvSeries) :
                    s.id = e.series.id /\ FindSeason(s, z.season_number) # {}
            /\ pc = "done" =>
                 \A s \in Range(srvSeries) : \A z \in Range(s.seasons) :
                    IF EligibleFromStart(s, z)
                    THEN /\ ~z.monitored
                         /\ FilesFromStart(s, z) \cap srvFiles \subseteq deleteIssued
                    ELSE /\ z.monitored
                         /\ FilesFromStart(s, z) \subseteq srvFiles)
    /\ [][run = "again" => deleteIssued' \ deleteIssued \subseteq srvFiles]_vars

\* The second run is done; it deleted a file of a season of which the first
\* run had removed another file.
C18_Witness ==
    /\ run = "again"
    /\ pc = "done"
    /\ \E f \in removedEarlier : \E g \in deleteIssued :
         SeasonKey(f) = SeasonKey(g) /\ g \notin srvFiles

\* The seasons a "delete N files" line has been written for.
ReportedKeys == {<<r.series, r.season>> : r \in Range(reports)}

\* C21: no season has two report lines; every line is for a season of the
\* eligible set and counts the fetched files with that season's number; an
\* unmonitor_season or a delete is issued only for a season whose line is
\* already written; and when the run is done, in either mode, every eligible
\* season has its line.
C21_OneReportPerSeason ==
    /\ \A i \in DOMAIN reports : \A j \in DOMAIN reports :
         (reports[i].series = reports[j].series
             /\ reports[i].season = reports[j].season) => i = j
    /\ \A r \in Range(reports) :
         /\ \E e \in to_delete : \E z \in Range(e.seasons) :
              e.series.id = r.series /\ z.season_number = r.season
         /\ r.files = Cardinality({f \in returnedFiles :
                                     SeasonKey(f) = <<r.series, r.season>>})
    /\ unmonitorCalls \subseteq ReportedKeys
    /\ \A f \in deleteIssued : SeasonKey(f) \in ReportedKeys
    /\ pc = "done" =>
         \A e \in to_delete : \A z \in Range(e.seasons) :
            <<e.series.id, z.season_number>> \in ReportedKeys

\* A run that failed in unmonitor_season had already written the line of
\* that season, with its two files.
C21_Witness ==
    /\ failed = "unmonitor"
    /\ \E r \in Range(reports) :
         /\ <<r.series, r.season>> \in CurrentKeys
         /\ r.files = 2
         /\ <<r.series, r.season>> \notin unmonitorDone

\* C22: a season gets at most one skip line, chosen by the first failing
\* check in the order unwatched, still airing, age, size: an unwatched season
\* gets the "unwatched" line whatever its airing fields are; a watched season
\* with next_airing gets the "still airing" line exactly when previous_airing
\* is present and no other line; a watched season without next_airing that is
\* too young gets the age line only when previous_airing is present and no
\* other line; a season skipped for its size, and an eligible one, get none.
C22_FirstFailingCheckLogs ==
    \A v \in Range(verdicts) : \A z \in SeasonsOf(v) :
        LET watched ==
              \E p \in watched_seasons : \E s \in Range(serieses) :
                 /\ s.id = v.series
                 /\ p = <<s.title, SeasonLabel(z.season_number)>>
            next == z.statistics.next_airing
            prev == z.statistics.previous_airing
        IN  /\ Cardinality(v.log) <= 1
            /\ ~watched => v.log = {"unwatched"} /\ v.verdict = "unwatched"
            /\ (watched /\ next # {}) =>
                 /\ v.verdict = "airing"
                 /\ v.log = IF prev # {} THEN {"still airing"} ELSE {}
            /\ (watched /\ next = {} /\ v.verdict \in {"young", "panic"}) =>
                 /\ v.log \subseteq {"age"}
                 /\ v.log = {"age"} => prev # {}
                 /\ (v.verdict = "young" /\ prev # {}) => v.log = {"age"}
            /\ v.verdict \in {"empty", "eligible"} => v.log = {}

\* One pass wrote the "still airing" line for a season that is also too
\* young and the "unwatched" line for a season that is also airing.
C22_Witness ==
    /\ \E v \in Range(verdicts) : \E z \in SeasonsOf(v) :
         /\ v.log = {"still airing"}
         /\ ~OldEnough(z, retain_duration, v.at)
    /\ \E v \in Range(verdicts) : \E z \in SeasonsOf(v) :
         /\ v.log = {"unwatched"}
         /\ z.statistics.next_airing # {}

\* C26 as stated: the decision pass never ends the run: a watched season
\* without next_airing that fails the age check with previous_airing present
\* is skipped with the age line, and the pass goes on.
C26_DecisionPassCompletes ==
    /\ failed # "agelog"
    /\ \A v \in Range(verdicts) : v.verdict # "panic"

\* C24 as stated: a delete is issued only for a file of a season for which
\* this run has sent a series update that Sonarr accepted and that Sonarr now
\* holds with monitored = false.
C24_DeleteOnlyAfterUpdate ==
    \A f \in deleteIssued :
        /\ SeasonKey(f) \in updateCalls
        /\ \E s \in Range(srvSeries) : \E z \in Range(s.seasons) :
             /\ SeasonKey(f) = <<s.id, z.season_number>>
             /\ ~z.monitored

\* C25 as stated: a tag another client added to the series record between
\* unmonitor_season's fetch and its update is on the record once
\* unmonitor_season has returned.
C25_NoLostUpdate ==
    pc # "update" =>
        \A w \in othersWrote :
            \E s \in Range(srvSeries) : s.id = w[1] /\ w[2] \in s.tags

\* Season j of record a is the first one with the number unmonitor_season
\* was called with.
IsTarget(a, j) ==
    \E k \in CurrentKeys :
        /\ k[1] = a.id
        /\ a.seasons[j].season_number = k[2]
        /\ \A i \in 1..(j - 1) : a.seasons[i].season_number # k[2]

\* C23: the update of unmonitor_season leaves Sonarr's tags and files alone
\* and every series record as it was, but for the monitored flag of the
\* first season with the given number of the given series, which is false
\* once the call has returned Ok; on a record whose flag is already false it
\* changes nothing.
C23_UnmonitorFrame ==
    [][pc = "update" =>
         /\ srvTags' = srvTags
         /\ srvFiles' = srvFiles
         /\ DOMAIN srvSeries' = DOMAIN srvSeries
         /\ \A i \in DOMAIN srvSeries :
              LET a == srvSeries[i]
                  b == srvSeries'[i]
              IN  /\ b.id = a.id
                  /\ b.title = a.title
                  /\ b.tags = a.tags
                  /\ DOMAIN b.seasons = DOMAIN a.seasons
                  /\ \A j \in DOMAIN a.seasons :
                       /\ b.seasons[j].season_number = a.seasons[j].season_number
                       /\ b.seasons[j].statistics = a.seasons[j].statistics
                       /\ IF IsTarget(a, j) /\ pc' = "delete"
                          THEN ~b.seasons[j].monitored
                          ELSE b.seasons[j].monitored = a.seasons[j].monitored
                       /\ (IsTarget(a, j) /\ ~a.seasons[j].monitored) => b = a]_vars

\* A second run has unmonitored once more a season the first run had
\* unmonitored, and the other season of that series is still monitored.
C23_Witness ==
    /\ run = "again"
    /\ pc = "delete"
    /\ \E k \in CurrentKeys :
         /\ k \in updateCalls
         /\ \E f \in removedEarlier : SeasonKey(f) = k
         /\ \E s \in Range(srvSeries) : \E z \in Range(s.seasons) :
              s.id = k[1] /\ z.season_number # k[2] /\ z.monitored

\* The seasons of the eligible set.
DecisionKeys ==
    UNION {{<<e.series.id, z.season_number>> : z \in Range(e.seasons)} :
             e \in to_delete}

\* C27: what a run decides, fetches and reports is given by the inventory,
\* the watched set, the configuration and the instants of the checks alone,
\* the same with and without --delete-files: a season is in the eligible set
\* exactly when its series is not exempt and its verdict at the instant it
\* was checked is "eligible"; every report counts the files Sonarr held for
\* the season at the start; a finished run has fetched the files of exactly
\* the series of the eligible set, once each, and reported exactly its
\* seasons; and a finished run that deletes has issued its deletes for
\* exactly the files the reports count, a dry run for none.
C27_ModesAgree ==
    /\ pc \in {"orchestrate", "season", "done"} =>
         \A s \in Range(serieses) : \A z \in Range(s.seasons) :
            InDecision(s, z) <=>
                /\ ~HasRetainTag(s)
                /\ \E t \in CheckedAt(s, z) :
                     Verdict(WatchedSet(all_tv_seasons(plexSeasons)), s, z,
                             retain_duration, t) = "eligible"
    /\ \A r \in Range(reports) :
         r.files = Cardinality({f \in FilesOf(srvSeries) :
                                  SeasonKey(f) = <<r.series, r.season>>})
    /\ ~delete_files => deleteIssued = {}
    /\ pc = "done" =>
         /\ \A id \in DOMAIN fetchCalls :
              fetchCalls[id] = IF \E e \in to_delete : e.series.id = id THEN 1 ELSE 0
         /\ ReportedKeys = DecisionKeys
         /\ delete_files =>
              deleteIssued = {f \in FilesOf(srvSeries) : SeasonKey(f) \in ReportedKeys}

\* A finished run that deletes: two report lines, and a delete for each of
\* the three files they count.
C27_Witness ==
    /\ pc = "done"
    /\ delete_files
    /\ Len(reports) = 2
    /\ Cardinality(deleteIssued) = 3
    /\ \E i \in DOMAIN reports : reports[i].files = 2

====
